---- MODULE Spec2Model ----
(***************************************************************************)
(* A model of flaw2flow.  F2FGuard (src/flaw2flow/f2f_guard.py): the       *)
(* annotation classifier, the function locator, the call-site collector,   *)
(* the coverage comparison of validate_Function, and the walks of          *)
(* validate_Project / validate_File over the callables of a file and of    *)
(* validate_Package over the files of a directory.  ValidatorCollector     *)
(* (src/flaw2flow/validator_collector.py).  F2F.validate_Int with its      *)
(* multiples option (src/flaw2flow/f2f.py).                                *)
(***************************************************************************)
EXTENDS Integers, Sequences, FiniteSets, TLC

VARIABLES
    annotation,   \* classifier: the type expression handed to the classifier
    needed,       \* classifier: the set it returned ("unset" before the call)
    func,         \* validate_Function: the reflected callable
    tree,         \* the definition nodes of the parsed file, in ast.walk order
    outcome,      \* validate_Function: how the call ended ("unset" before)
    target_node,  \* locator: index of the chosen node, 0 = None, -1 = not run
    files,        \* walker: the files on disk, path -> file
    pc,           \* walker: "idle" between calls, "walking" inside validate_Project
    path,         \* walker: the path given to the running validate_File
    cursor,       \* walker: position in the enumeration of the module's callables
    analyzed,     \* walker: qualified names handed to validate_Function this run
    history,      \* walker: the finished validate_File calls, <<path, outcome>>
    collected,    \* guard collector: the pairs _collect_F2f_Validations returned
    in_target,    \* ValidatorCollector.in_target
    result,       \* ValidatorCollector.result, as its set of (name, validator) pairs
    visited,      \* ValidatorCollector: visit(tree) has returned
    package,      \* validate_Package: the walk's files, in os.walk order
    walked,       \* validate_Package: paths handed to validate_File so far
    raised,       \* validate_Package: how the call ended
    target,       \* F2F.validate_Int: the value validated
    multiples     \* F2F.validate_Int: the multiples option

vars == <<annotation, needed, func, tree, outcome, target_node,
          files, pc, path, cursor, analyzed, history,
          collected, in_target, result, visited,
          package, walked, raised, target, multiples>>

(***************************************************************************)
(* Bounds of the model.                                                    *)
(***************************************************************************)
MaxArgs == 2      \* type arguments written in one subscript: list[a, b]
MaxParams == 2    \* parameters in a signature
MaxCalls == 2     \* Call nodes in a function body
MaxNodes == 3     \* definition nodes in a parsed file (locator)
MaxMembers == 2   \* members of a loaded module (walker)
MaxRuns == 3      \* validate_File calls in one session

(***************************************************************************)
(* Type expressions.  cls is the class (or typing form) of the annotation, *)
(* generic tells a subscripted alias (list[int]) from the bare class       *)
(* (list), args are the subscript's arguments.                             *)
(***************************************************************************)
Plain(c) == [cls |-> c, generic |-> FALSE, args |-> <<>>]
Alias(c, a) == [cls |-> c, generic |-> TRUE, args |-> a]

Scalars == {"int", "float", "bool", "str", "bytes"}
Containers == {"list", "dict", "tuple"}
UnionForms == {"typing.Union", "types.UnionType"}

\* typing.get_origin: the subscripted class of an alias, None for a bare class
get_origin(a) == IF a.generic THEN a.cls ELSE "None"

\* typing.get_args
get_args(a) == a.args

\* `annotation is c` for a builtin class c
Is(a, c) == ~a.generic /\ a.cls = c

\* A classifier that tests `issubclass(annotation, int)` first: bool is a
\* subclass of int, so a boolean parameter would be asked for validate_Int.
BuiltinRequired_Subclass(a) ==
    IF Is(a, "int") \/ Is(a, "bool") THEN {"validate_Int"}
    ELSE IF Is(a, "float") THEN {"validate_Float"}
    ELSE IF Is(a, "str") THEN {"validate_String"}
    ELSE IF Is(a, "bytes") THEN {"validate_Bytes"}
    ELSE {}

\* lines 144-153: the identity tests against the builtin scalar classes
BuiltinRequired(a) ==
    IF Is(a, "int") THEN {"validate_Int"}
    ELSE IF Is(a, "float") THEN {"validate_Float"}
    ELSE IF Is(a, "bool") THEN {"validate_Bool"}
    ELSE IF Is(a, "str") THEN {"validate_String"}
    ELSE IF Is(a, "bytes") THEN {"validate_Bytes"}
    ELSE {}

\* lines 156-172: list / dict / tuple, and the empty set for anything else
ContainerRequired(a) ==
    LET origin == get_origin(a)
        args == get_args(a)
    IN  IF origin = "list" \/ Is(a, "list")
          THEN IF Len(args) > 0
                 THEN IF Is(args[1], "int") \/ Is(args[1], "float")
                        THEN {"validate_Numeric_List"}
                      ELSE IF Is(args[1], "str") THEN {"validate_String_List"}
                      ELSE {"validate_List"}
               ELSE {"validate_List"}
        ELSE IF origin = "dict" \/ Is(a, "dict") THEN {"validate_Dict"}
        ELSE IF origin = "tuple" \/ Is(a, "tuple") THEN {"validate_Tuple"}
        ELSE {}

\* line 136: typing.Union[...] by its origin, A | B by its class
IsUnion(a) == get_origin(a) = "typing.Union" \/ (a.generic /\ a.cls = "types.UnionType")

RECURSIVE _required_Validators_For_Annotation(_)
RECURSIVE UnionRequired(_, _)
\* A union that asks only for what its first member needs.
UnionRequired_FirstMember(args, i) ==
    IF i > Len(args) THEN {} ELSE _required_Validators_For_Annotation(args[i])

\* lines 137-141: the loop over a union's members, None skipped
UnionRequired(args, i) ==
    IF i > Len(args) THEN {}
    ELSE (IF Is(args[i], "NoneType") THEN {}
          ELSE _required_Validators_For_Annotation(args[i]))
         \cup UnionRequired(args, i + 1)

_required_Validators_For_Annotation(a) ==
    IF IsUnion(a) THEN UnionRequired(get_args(a), 1)
    ELSE IF BuiltinRequired(a) # {} THEN BuiltinRequired(a)
    ELSE ContainerRequired(a)

\* `needed` before the classifier has returned (no set of validator names)
Unset == {"<not called>"}

\* how a call ended: the exception class (or "return"), which raise statement,
\* and what its message names
Outcome(e, w, f, p, i) == [exc |-> e, what |-> w, func |-> f, param |-> p, ids |-> i]

NoOutcome == Outcome("<not called>", "", "", "", {})

(***************************************************************************)
(* Syntax.  A definition node of the parsed file: its node type, name and  *)
(* line, the index of the definition node (or class) enclosing it in the   *)
(* walk (0 at module level), and the Call nodes of its own body.  A Call   *)
(* node: base is the identifier x of a callee written x.attr ("-" when the *)
(* callee has another shape), args the positional arguments, keywords the  *)
(* keyword arguments (arg = "**" for a **mapping, whose kw.arg is None).   *)
(* An argument is its node type and the variable it mentions.              *)
(***************************************************************************)
Node(t, n, l, up, c) == [type |-> t, name |-> n, lineno |-> l, parent |-> up, calls |-> c]

Call(b, a, pos, kws) == [base |-> b, attr |-> a, args |-> pos, keywords |-> kws]

Name(v) == [node |-> "Name", id |-> v]

Expr(t, v) == [node |-> t, id |-> v]

Keyword(k, v) == [arg |-> k, value |-> v]

Validators ==
    {"validate_Int", "validate_Float", "validate_Bool", "validate_String",
     "validate_Bytes", "validate_Numeric_List", "validate_String_List",
     "validate_List", "validate_Dict", "validate_Tuple"}

\* attr.startswith("validate_"), over the attribute names of the model
StartsWithValidate(attr) == attr \in Validators \cup {"validate_Custom"}

RECURSIVE LocateFrom_FirstName(_, _, _, _)
\* A locator that takes the first definition of the name and never looks
\* at the line.
LocateFrom_FirstName(tr, f, i, found) ==
    IF i > Len(tr) THEN found
    ELSE IF tr[i].type \in {"FunctionDef", "AsyncFunctionDef"} /\ tr[i].name = f.name
      THEN i
    ELSE LocateFrom_FirstName(tr, f, i + 1, found)

RECURSIVE LocateFrom(_, _, _, _)
\* lines 194-204: the walk for the definition node; found is target_node so
\* far (0 for None), the result is target_node when the loop ends
LocateFrom(tr, f, i, found) ==
    IF i > Len(tr) THEN found
    ELSE IF tr[i].type \in {"FunctionDef", "AsyncFunctionDef"} /\ tr[i].name = f.name
      THEN IF tr[i].lineno = f.lineno THEN i
           ELSE LocateFrom(tr, f, i + 1, IF found = 0 THEN i ELSE found)
    ELSE LocateFrom(tr, f, i + 1, found)

RECURSIVE IsUnder(_, _, _)
\* node i lies in the subtree of node t
IsUnder(tr, i, t) == i = t \/ (tr[i].parent # 0 /\ IsUnder(tr, tr[i].parent, t))

\* A collector that reads the located definition's own body only.
SubtreeCalls_OwnBody(tr, t) == tr[t].calls

\* the Call nodes NodeVisitor reaches from node t: generic_visit descends
\* into every child, nested definitions included
SubtreeCalls(tr, t) == UNION {tr[i].calls : i \in {k \in 1..Len(tr) : IsUnder(tr, k, t)}}

\* lines 326-343: the (parameter, validator) pairs one Call node records
visit_Call(c) ==
    IF c.base = "F2F" /\ StartsWithValidate(c.attr)
      THEN (IF Len(c.args) > 0 /\ c.args[1].node = "Name"
              THEN {<<c.args[1].id, c.attr>>} ELSE {})
           \cup {<<kw.value.id, c.attr>> :
                   kw \in {k \in c.keywords : k.arg # "**" /\ k.value.node = "Name"}}
    ELSE {}

\* lines 348-350: the finished collector's result, as its set of pairs
CollectorResult(tr, t) == UNION {visit_Call(c) : c \in SubtreeCalls(tr, t)}

\* lines 189-350: raised tells the RuntimeError of line 207
_collect_F2f_Validations(f, tr) ==
    LET t == LocateFrom(tr, f, 1, 0)
    IN  IF t = 0 THEN [raised |-> TRUE, result |-> {}]
        ELSE [raised |-> FALSE, result |-> CollectorResult(tr, t)]

(***************************************************************************)
(* The reflected callable: qualified name, name, first line, and the       *)
(* parameters of its signature in order, each with its kind and its entry  *)
(* in the type hints (Empty when it has none).                             *)
(***************************************************************************)
Empty == Plain("inspect._empty")

Param(n, k, a) == [name |-> n, kind |-> k, ann |-> a]

Function(q, n, l, ps) == [qualname |-> q, name |-> n, lineno |-> l, params |-> ps]

\* Only the receiver is skipped; *args and **kwargs are treated as ordinary
\* parameters.
Exempt_ReceiverOnly(p) == p.name \in {"self", "cls"}

\* lines 66-71: parameters the loop skips
Exempt(p) ==
    \/ p.name \in {"self", "cls"}
    \/ p.kind \in {"VAR_POSITIONAL", "VAR_KEYWORD"}

RECURSIVE RequiredFrom(_, _, _)
\* lines 63-82: raised names the parameter of the TypeError of line 76 (""
\* when the loop ends), param_required the entries in insertion order
RequiredFrom(ps, i, acc) ==
    IF i > Len(ps) THEN [raised |-> "", param_required |-> acc]
    ELSE IF Exempt(ps[i]) THEN RequiredFrom(ps, i + 1, acc)
    ELSE IF ps[i].ann = Empty THEN [raised |-> ps[i].name, param_required |-> acc]
    ELSE LET req == _required_Validators_For_Annotation(ps[i].ann)
         IN  RequiredFrom(ps, i + 1,
                 IF req # {} THEN Append(acc, [name |-> ps[i].name, required |-> req])
                 ELSE acc)

Returned == Outcome("return", "", "", "", {})

\* param_actual.get(pname, set())
ActualSet(param_actual, pname) == {pr[2] : pr \in {q \in param_actual : q[1] = pname}}

\* A comparison that reports missing validators and accepts unexpected ones.
CompareOne_MissingOnly(f, entry, param_actual) ==
    LET missing == entry.required \ ActualSet(param_actual, entry.name)
    IN  IF missing # {}
          THEN Outcome("ValueError", "missing", f.qualname, entry.name, missing)
        ELSE Returned

\* A comparison that looks for unexpected validators before missing ones.
CompareOne_ExtraFirst(f, entry, param_actual) ==
    LET actual_set == ActualSet(param_actual, entry.name)
        missing == entry.required \ actual_set
        extra == actual_set \ entry.required
    IN  IF extra # {}
          THEN Outcome("ValueError", "extra", f.qualname, entry.name, extra)
        ELSE IF missing # {}
          THEN Outcome("ValueError", "missing", f.qualname, entry.name, missing)
        ELSE Returned

\* lines 89-99: one turn of the comparison loop
CompareOne(f, entry, param_actual) ==
    LET actual_set == ActualSet(param_actual, entry.name)
        missing == entry.required \ actual_set
        extra == actual_set \ entry.required
    IN  IF missing # {}
          THEN Outcome("ValueError", "missing", f.qualname, entry.name, missing)
        ELSE IF extra # {}
          THEN Outcome("ValueError", "extra", f.qualname, entry.name, extra)
        ELSE Returned

RECURSIVE CompareFrom(_, _, _, _)
\* line 88: the loop over param_required, left at the first raise
CompareFrom(f, reqs, param_actual, i) ==
    IF i > Len(reqs) THEN Returned
    ELSE IF CompareOne(f, reqs[i], param_actual) # Returned
      THEN CompareOne(f, reqs[i], param_actual)
    ELSE CompareFrom(f, reqs, param_actual, i + 1)

\* lines 53-99, for a function loaded by _import_From_Path (lines 43-51 pass)
validate_Function(f, tr) ==
    LET r == RequiredFrom(f.params, 1, <<>>)
    IN  IF r.raised # ""
          THEN Outcome("TypeError", "annotation", f.qualname, r.raised, {})
        ELSE LET c == _collect_F2f_Validations(f, tr)
             IN  IF c.raised THEN Outcome("RuntimeError", "locate", f.name, "", {})
                 ELSE CompareFrom(f, r.param_required, c.result, 1)

(***************************************************************************)
(* The type expressions the classifier is run on: every bare class, every  *)
(* alias over them with up to MaxArgs arguments, and aliases nested one    *)
(* level deeper.  A union has at least two members, all different, and no  *)
(* member that is itself a union (typing flattens and deduplicates).       *)
(***************************************************************************)
SeqsOver(S, lo, hi) == UNION {[1..n -> S] : n \in lo..hi}

Distinct(s) == \A i, j \in DOMAIN s : i # j => s[i] # s[j]

Basics == {Plain(c) : c \in Scalars \cup Containers \cup {"NoneType", "custom", "other"}}

ContainerAliases(S) == {Alias(c, a) : c \in Containers, a \in SeqsOver(S, 1, MaxArgs)}

UnionAliases(S) == {Alias(u, a) : u \in UnionForms, a \in {s \in SeqsOver(S, 2, MaxArgs) : Distinct(s)}}

Level1 == ContainerAliases(Basics) \cup UnionAliases(Basics)

\* one-argument containers and two-member unions, to nest one level deeper
Inner ==
    {Alias(c, <<b>>) : c \in Containers, b \in Basics}
    \cup {Alias(u, <<Plain("int"), b>>) : u \in UnionForms, b \in {Plain("str"), Plain("NoneType")}}

Level2 ==
    {Alias(c, <<a>>) : c \in Containers, a \in Inner}
    \cup {Alias(c, <<a, b>>) : c \in Containers, a \in Inner, b \in Basics}
    \cup {Alias(u, <<a, b>>) : u \in UnionForms, a \in {i \in Inner : i.cls \in Containers}, b \in Basics}
    \cup {Alias(u, <<b, a>>) : u \in UnionForms, a \in {i \in Inner : i.cls \in Containers}, b \in Basics}

Annotations == Basics \cup Level1 \cup Level2


\* the walker's and validate_Function's variables, at rest
NoFunc == [qualname |-> "", name |-> "", lineno |-> 0, params |-> <<>>]

IdleFunction == func = NoFunc /\ tree = <<>> /\ outcome = NoOutcome /\ target_node = -1

IdleWalker ==
    /\ files = <<>> /\ pc = "idle" /\ path = 0 /\ cursor = 0
    /\ analyzed = <<>> /\ history = <<>>

IdleClassifier == annotation = Plain("custom") /\ needed = Unset

\* the collectors', validate_Package's and validate_Int's variables, at rest
NoPairs == {<<"<not called>", "">>}

IdleCollector == collected = NoPairs /\ in_target = FALSE /\ result = {} /\ visited = FALSE

IdlePackage == package = <<>> /\ walked = <<>> /\ raised = NoOutcome

IdleInt == target = [type |-> "NoneType", value |-> 0] /\ multiples = <<>>

IdleRest == IdleCollector /\ IdlePackage /\ IdleInt

functionVars == <<func, tree, outcome, target_node>>
walkerVars == <<files, pc, path, cursor, analyzed, history>>
classifierVars == <<annotation, needed>>
collectorVars == <<collected, in_target, result, visited>>
packageVars == <<package, walked, raised>>
intVars == <<target, multiples>>
restVars == <<collectorVars, packageVars, intVars>>

(***************************************************************************)
(* The classifier alone: one call on one type expression.                  *)
(***************************************************************************)
ClassifyInit ==
    /\ annotation \in Annotations
    /\ needed = Unset
    /\ IdleFunction /\ IdleWalker /\ IdleRest

Classify ==
    /\ needed = Unset
    /\ needed' = _required_Validators_For_Annotation(annotation)
    /\ UNCHANGED <<annotation, functionVars, walkerVars, restVars>>

ClassifyNext == Classify

SpecClassify == ClassifyInit /\ [][ClassifyNext]_vars

(***************************************************************************)
(* validate_Function alone: one call on one reflected callable and the     *)
(* parsed file it was loaded from.                                         *)
(***************************************************************************)
RECURSIVE UpTo(_, _)
\* the subsets of S with at most n elements
UpTo(S, n) == IF n = 0 THEN {{}} ELSE UpTo(S, n - 1) \cup {b \cup {c} : b \in UpTo(S, n - 1), c \in S}

Positional == "POSITIONAL_OR_KEYWORD"

Simple(attr, v) == Call("F2F", attr, <<Name(v)>>, {})

IntOrStr == Alias("types.UnionType", <<Plain("int"), Plain("str")>>)

\* a signature Python accepts: no name twice, nothing but **kwargs after *args
Signature(ps) ==
    /\ \A i, j \in DOMAIN ps : i # j => ps[i].name # ps[j].name
    /\ \A i, j \in DOMAIN ps :
          i < j /\ ps[i].kind # Positional => ps[j].kind = "VAR_KEYWORD"

\* signatures of up to MaxParams parameters, annotated or not, with receiver
\* and variadic collectors; bodies of plain validator calls on x and y
MixedParams ==
    {Param(n, Positional, a) :
        n \in {"x", "y"},
        a \in {Plain("int"), Plain("str"), IntOrStr, Plain("custom"), Empty}}
    \cup {Param("self", Positional, Empty),
          Param("args", "VAR_POSITIONAL", Empty),
          Param("kwargs", "VAR_KEYWORD", Empty)}

MixedCalls == {Simple(a, v) : a \in {"validate_Int", "validate_String", "validate_List"}, v \in {"x", "y"}}

MixedInputs ==
    {<<ps, <<Node("FunctionDef", "foo", 4, 0, b)>> >> :
        ps \in {s \in SeqsOver(MixedParams, 0, MaxParams) : Signature(s)},
        b \in UpTo(MixedCalls, MaxCalls)}
    \cup {<<ps, <<>> >> : ps \in {s \in SeqsOver(MixedParams, 0, MaxParams) : Signature(s)}}

\* one parameter x of each single-validator type and of union types; bodies
\* of plain calls of any validator on x
OneParamTypes ==
    {Plain(c) : c \in Scalars}
    \cup {Alias("list", <<Plain("int")>>)}
    \cup {Alias(u, <<Plain("int"), Plain("str")>>) : u \in UnionForms}
    \cup {Alias(u, <<Plain("int"), Plain("NoneType")>>) : u \in UnionForms}
    \cup {Alias("typing.Union", <<Plain("custom"), Plain("other")>>),
          Alias("typing.Union", <<Plain("custom"), Plain("NoneType")>>),
          Alias("types.UnionType", <<Plain("bool"), Alias("list", <<Plain("str")>>), Plain("NoneType")>>)}

OneParamInputs ==
    {<< <<Param("x", Positional, a)>>, <<Node("FunctionDef", "foo", 4, 0, b)>> >> :
        a \in OneParamTypes,
        b \in UpTo({Simple(v, "x") : v \in Validators}, MaxCalls)}

\* integer parameters x and y; bodies of calls of every shape: another
\* callee, no argument, a derived first argument, keyword arguments
KeywordShapes ==
    {{}, {Keyword("target", Name("x"))}, {Keyword("target", Expr("Call", "x"))},
     {Keyword("min_value", Name("y"))}, {Keyword("min_value", Name("x"))},
     {Keyword("**", Name("x"))}}

ShapedCalls ==
    {Call("F2F", "validate_Int", a, k) :
        a \in {<<>>, <<Name("x")>>, <<Expr("Call", "x")>>, <<Expr("Constant", ""), Name("x")>>},
        k \in KeywordShapes}
    \cup {Call("F2F", "validate_Int", <<e>>, {}) :
             e \in {Name("y"), Expr("Attribute", "x"), Expr("Subscript", "x"), Expr("Constant", "")}}
    \cup {Call("G", "validate_Int", <<Name("x")>>, {}),
          Call("-", "validate_Int", <<Name("x")>>, {}),
          Call("F2F", "check_Int", <<Name("x")>>, {}),
          Call("F2F", "validate_Custom", <<Name("y")>>, {}),
          Simple("validate_String", "x")}

ShapedInputs ==
    {<<ps, <<Node("FunctionDef", "foo", 4, 0, b)>> >> :
        ps \in {<<Param("x", Positional, Plain("int"))>>,
                <<Param("x", Positional, Plain("int")), Param("y", Positional, Plain("int"))>>,
                <<Param("x", Positional, Plain("int")), Param("y", Positional, Plain("custom"))>>},
        b \in UpTo(ShapedCalls, MaxCalls)}

FunctionInputs == MixedInputs \cup OneParamInputs \cup ShapedInputs

Init ==
    /\ \E in \in FunctionInputs :
          /\ func = Function("foo", "foo", 4, in[1])
          /\ tree = in[2]
    /\ outcome = NoOutcome
    /\ target_node = -1
    /\ IdleClassifier /\ IdleWalker /\ IdleRest

ValidateFunction ==
    /\ outcome = NoOutcome
    /\ outcome' = validate_Function(func, tree)
    /\ UNCHANGED <<func, tree, target_node, classifierVars, walkerVars, restVars>>

Next == ValidateFunction

Spec == Init /\ [][Next]_vars

(***************************************************************************)
(* The locator alone: _collect_F2f_Validations on a callable named foo     *)
(* and a parsed file of up to MaxNodes definition nodes.  No two           *)
(* definitions start on the same line; the callable's recorded line may be *)
(* the line of none of them (co_firstlineno of a decorated function is the *)
(* decorator's line).  The recorded line is 1; the nodes' lines vary.      *)
(***************************************************************************)
LocateNodes ==
    {Node(t, n, l, 0, {}) :
        t \in {"FunctionDef", "AsyncFunctionDef", "ClassDef"},
        n \in {"foo", "bar"},
        l \in 1..MaxNodes}

LocateTrees ==
    {tr \in SeqsOver(LocateNodes, 0, MaxNodes) :
        \A i, j \in DOMAIN tr : i # j => tr[i].lineno # tr[j].lineno}

LocateInit ==
    /\ func = Function("foo", "foo", 1, <<>>)
    /\ tree \in LocateTrees
    /\ outcome = NoOutcome
    /\ target_node = -1
    /\ IdleClassifier /\ IdleWalker /\ IdleRest

Locate ==
    /\ target_node = -1
    /\ target_node' = LocateFrom(tree, func, 1, 0)
    /\ outcome' = IF _collect_F2f_Validations(func, tree).raised
                    THEN Outcome("RuntimeError", "locate", func.name, "", {})
                  ELSE Returned
    /\ UNCHANGED <<func, tree, classifierVars, walkerVars, restVars>>

LocateNext == Locate

SpecLocate == LocateInit /\ [][LocateNext]_vars

(***************************************************************************)
(* Files.  A source file is written as its top-level items in order; item  *)
(* k starts on line 10k (a class's __init__ on line 10k + 1).  Loading it  *)
(* gives the module's members in vars() order, parsing it gives the tree.  *)
(* own is obj.__module__ == module_name: a name imported from elsewhere is *)
(* a member of the module but not its own, and has no node in the file.    *)
(***************************************************************************)
Item(k, o, n, q, ps, b) == [kind |-> k, own |-> o, name |-> n, qualname |-> q, params |-> ps, body |-> b]

\* the callable reflection finds behind item k: the function itself, a
\* class's __init__ when the class defines one (object.__init__ is no function)
CallableOf(items, k) ==
    IF items[k].kind = "function"
      THEN Function(items[k].qualname, items[k].name, 10 * k, items[k].params)
    ELSE IF items[k].kind = "class"
      THEN Function(items[k].qualname, "__init__", 10 * k + 1, items[k].params)
    ELSE IF items[k].kind = "lambda"
      THEN Function("<lambda>", "<lambda>", 10 * k, items[k].params)
    ELSE NoFunc

MembersOf(items) ==
    [k \in DOMAIN items |->
        [kind |-> IF items[k].kind \in {"function", "lambda"} THEN "function" ELSE "class",
         own |-> items[k].own,
         callable |-> CallableOf(items, k)]]

RECURSIVE TreeFrom(_, _, _)
TreeFrom(items, k, acc) ==
    IF k > Len(items) THEN acc
    ELSE IF ~items[k].own \/ items[k].kind = "lambda" THEN TreeFrom(items, k + 1, acc)
    ELSE IF items[k].kind = "function"
      THEN TreeFrom(items, k + 1,
               Append(acc, Node("FunctionDef", items[k].name, 10 * k, 0, items[k].body)))
    ELSE IF items[k].kind = "class"
      THEN TreeFrom(items, k + 1,
               Append(Append(acc, Node("ClassDef", items[k].name, 10 * k, 0, {})),
                      Node("FunctionDef", "__init__", 10 * k + 1, Len(acc) + 1, items[k].body)))
    ELSE TreeFrom(items, k + 1, Append(acc, Node("ClassDef", items[k].name, 10 * k, 0, {})))

\* load is what exec_module raises for the file ("ok" when it raises nothing)
File(e, py, items) ==
    [exists |-> e, py |-> py, load |-> "ok",
     members |-> MembersOf(items), tree |-> TreeFrom(items, 1, <<>>)]

\* lines 376-385: what loading can raise: an unparsable source, an
\* unreadable file, top-level code that raises
LoadErrors == {"SyntaxError", "PermissionError", "ValueError", "TypeError"}

\* an existing .py file whose load raises exception e
Unloadable(e) == [File(TRUE, TRUE, <<>>) EXCEPT !.load = e]

(***************************************************************************)
(* validate_Project and validate_File.  A call of validate_File is one     *)
(* ValidateFile step, one ProjectStep per callable handed to               *)
(* validate_Function, and ProjectReturn when both loops have run out; an   *)
(* exception ends the call where it is raised.  history keeps how each     *)
(* finished call ended.                                                    *)
(***************************************************************************)
Ended(p, o, a) == [path |-> p, outcome |-> o, analyzed |-> a]

\* lines 372-386: the module object and the source behind a path
_import_From_Path(p) == files[p]

\* lines 111-113: the module's own top-level functions, in vars() order
TopLevelFunctions(ms) == SelectSeq(ms, LAMBDA m : m.kind = "function" /\ m.own)

\* lines 116-120: the module's own classes whose __init__ is a function
Constructors(ms) == SelectSeq(ms, LAMBDA m : m.kind = "class" /\ m.own /\ m.callable # NoFunc)

\* the callables validate_Project hands to validate_Function, in order
Enumeration(ms) ==
    [i \in 1..(Len(TopLevelFunctions(ms)) + Len(Constructors(ms))) |->
        (TopLevelFunctions(ms) \o Constructors(ms))[i].callable]

\* A walker that keeps the position it reached in the call before.
ValidateFile_KeepsPosition ==
    /\ pc = "idle"
    /\ Len(history) < MaxRuns
    /\ \E p \in DOMAIN files :
          IF ~files[p].exists
            THEN /\ history' = Append(history, Ended(p, Outcome("FileNotFoundError", "path", "", "", {}), <<>>))
                 /\ UNCHANGED <<pc, path, cursor, analyzed>>
          ELSE IF ~files[p].py
            THEN /\ history' = Append(history, Ended(p, Outcome("ValueError", "not .py", "", "", {}), <<>>))
                 /\ UNCHANGED <<pc, path, cursor, analyzed>>
          ELSE IF files[p].load # "ok"
            THEN /\ history' = Append(history, Ended(p, Outcome(files[p].load, "load", "", "", {}), <<>>))
                 /\ UNCHANGED <<pc, path, cursor, analyzed>>
          ELSE /\ pc' = "walking"
               /\ path' = p
               /\ cursor' = IF cursor = 0 THEN 1 ELSE cursor
               /\ analyzed' = <<>>
               /\ UNCHANGED history
    /\ UNCHANGED <<files, functionVars, classifierVars, restVars>>

\* lines 389-397 and 105-108: the path checks, the import, the first loop set up
ValidateFile ==
    /\ pc = "idle"
    /\ Len(history) < MaxRuns
    /\ \E p \in DOMAIN files :
          IF ~files[p].exists
            THEN /\ history' = Append(history, Ended(p, Outcome("FileNotFoundError", "path", "", "", {}), <<>>))
                 /\ UNCHANGED <<pc, path, cursor, analyzed>>
          ELSE IF ~files[p].py
            THEN /\ history' = Append(history, Ended(p, Outcome("ValueError", "not .py", "", "", {}), <<>>))
                 /\ UNCHANGED <<pc, path, cursor, analyzed>>
          ELSE IF files[p].load # "ok"
            THEN /\ history' = Append(history, Ended(p, Outcome(files[p].load, "load", "", "", {}), <<>>))
                 /\ UNCHANGED <<pc, path, cursor, analyzed>>
          ELSE /\ pc' = "walking"
               /\ path' = p
               /\ cursor' = 1
               /\ analyzed' = <<>>
               /\ UNCHANGED history
    /\ UNCHANGED <<files, functionVars, classifierVars, restVars>>

\* A walker that goes on to the next callable after a failure.
ProjectStep_KeepGoing ==
    /\ pc = "walking"
    /\ cursor <= Len(Enumeration(_import_From_Path(path).members))
    /\ func' = Enumeration(_import_From_Path(path).members)[cursor]
    /\ tree' = _import_From_Path(path).tree
    /\ outcome' = validate_Function(func', tree')
    /\ analyzed' = Append(analyzed, func'.qualname)
    /\ cursor' = cursor + 1
    /\ UNCHANGED <<files, pc, history, path, target_node, classifierVars, restVars>>

\* lines 111-120: one turn of the loops: validate_Function on the next
\* callable; what it raises leaves validate_Project and validate_File
ProjectStep ==
    /\ pc = "walking"
    /\ cursor <= Len(Enumeration(_import_From_Path(path).members))
    /\ func' = Enumeration(_import_From_Path(path).members)[cursor]
    /\ tree' = _import_From_Path(path).tree
    /\ outcome' = validate_Function(func', tree')
    /\ analyzed' = Append(analyzed, func'.qualname)
    /\ IF outcome' # Returned
         THEN /\ pc' = "idle"
              /\ history' = Append(history, Ended(path, outcome', analyzed'))
              /\ UNCHANGED cursor
       ELSE /\ cursor' = cursor + 1
            /\ UNCHANGED <<pc, history>>
    /\ UNCHANGED <<files, path, target_node, classifierVars, restVars>>

\* the loops have run out: validate_Project and validate_File return None
ProjectReturn ==
    /\ pc = "walking"
    /\ cursor > Len(Enumeration(_import_From_Path(path).members))
    /\ pc' = "idle"
    /\ history' = Append(history, Ended(path, Returned, analyzed))
    /\ UNCHANGED <<files, path, cursor, analyzed, functionVars, classifierVars, restVars>>

WalkNext == ValidateFile \/ ProjectStep \/ ProjectReturn

(***************************************************************************)
(* The walker's inputs: files of up to MaxMembers items (functions that    *)
(* pass or fail each way, an imported function, a lambda bound to a name,  *)
(* a class Person whose constructor validates its two parameters or not, a *)
(* class without constructor), one file per session; and sessions over two *)
(* files, which may be missing, no .py file, or fail to load.              *)
(***************************************************************************)
IntX == <<Param("x", Positional, Plain("int"))>>

FunctionItems ==
    {Item("function", TRUE, "ok", "ok", IntX, {Simple("validate_Int", "x")}),
     Item("function", TRUE, "miss", "miss", IntX, {}),
     Item("function", TRUE, "wrong", "wrong", IntX, {Simple("validate_String", "x")}),
     Item("function", TRUE, "extra", "extra", IntX,
          {Simple("validate_Int", "x"), Simple("validate_String", "x")}),
     Item("function", TRUE, "untyped", "untyped", <<Param("x", Positional, Empty)>>,
          {Simple("validate_Int", "x")}),
     Item("function", FALSE, "helper", "helper", IntX, {}),
     Item("lambda", TRUE, "shortcut", "<lambda>", <<>>, {})}

CtorCalls ==
    {Simple("validate_Int", "a"), Simple("validate_Int", "b"), Simple("validate_String", "b"),
     Call("F2F", "validate_Int", <<Name("a")>>, {Keyword("max_value", Name("b"))})}

ClassItems ==
    {Item("class", TRUE, "Person", "Person.__init__",
          <<Param("self", Positional, Empty), Param("a", Positional, Plain("int")),
            Param("b", Positional, t)>>, body) :
        t \in {Plain("int"), Plain("str")}, body \in UpTo(CtorCalls, MaxCalls)}
    \cup {Item("bare class", TRUE, "Marker", "Marker", <<>>, {}),
          Item("bare class", FALSE, "F2F", "F2F", <<>>, {})}

Sources ==
    {its \in SeqsOver(FunctionItems \cup ClassItems, 0, MaxMembers) :
        \A i, j \in DOMAIN its : i # j => its[i].name # its[j].name}

PersonMissesB ==
    Item("class", TRUE, "Person", "Person.__init__",
         <<Param("self", Positional, Empty), Param("a", Positional, Plain("int")),
           Param("b", Positional, Plain("str"))>>, {Simple("validate_Int", "a")})

SessionFiles ==
    {File(TRUE, TRUE, <<FunctionItems_k>>) : FunctionItems_k \in FunctionItems}
    \cup {File(TRUE, TRUE, <<PersonMissesB>>), File(TRUE, TRUE, <<>>),
          File(FALSE, TRUE, <<>>), File(TRUE, FALSE, <<>>)}
    \cup {Unloadable(e) : e \in LoadErrors}

WalkInit ==
    /\ \/ \E its \in Sources : files = <<File(TRUE, TRUE, its)>>
       \/ \E f1, f2 \in SessionFiles : files = <<f1, f2>>
    /\ pc = "idle" /\ path = 0 /\ cursor = 0 /\ analyzed = <<>> /\ history = <<>>
    /\ IdleClassifier /\ IdleFunction /\ IdleRest

SpecWalk == WalkInit /\ [][WalkNext]_vars

(***************************************************************************)
(* What the specification says, in its own terms.                          *)
(***************************************************************************)
RECURSIVE Table(_)
\* the classification table of the specification, rows in its order
Table(a) ==
    IF a.cls \in UnionForms
      THEN UNION {Table(a.args[i]) : i \in {k \in DOMAIN a.args : a.args[k].cls # "NoneType"}}
    ELSE IF a.cls = "bool" THEN {"validate_Bool"}
    ELSE IF a.cls = "int" THEN {"validate_Int"}
    ELSE IF a.cls = "float" THEN {"validate_Float"}
    ELSE IF a.cls = "str" THEN {"validate_String"}
    ELSE IF a.cls = "bytes" THEN {"validate_Bytes"}
    ELSE IF a.cls = "list" /\ a.args # <<>> /\ a.args[1].cls \in {"int", "float"}
      THEN {"validate_Numeric_List"}
    ELSE IF a.cls = "list" /\ a.args # <<>> /\ a.args[1].cls = "str"
      THEN {"validate_String_List"}
    ELSE IF a.cls = "list" THEN {"validate_List"}
    ELSE IF a.cls = "dict" THEN {"validate_Dict"}
    ELSE IF a.cls = "tuple" THEN {"validate_Tuple"}
    ELSE {}

\* the type expression with everything below the outermost container level
\* removed (for a union: below the outermost level of each member)
Outermost(a) ==
    LET Strip(e) == [e EXCEPT !.args = <<>>]
        Level(e) == [e EXCEPT !.args = [i \in DOMAIN e.args |-> Strip(e.args[i])]]
    IN  IF a.cls \in UnionForms
          THEN [a EXCEPT !.args = [i \in DOMAIN a.args |-> Level(a.args[i])]]
        ELSE Level(a)

\* the receiver and the variadic collectors
ReceiverOrVariadic(p) == p.name \in {"self", "cls"} \/ p.kind \in {"VAR_POSITIONAL", "VAR_KEYWORD"}

\* the parameters that must carry an annotation and carry none
Unannotated(f) == {i \in DOMAIN f.params : ~ReceiverOrVariadic(f.params[i]) /\ f.params[i].ann = Empty}

\* the required set of a parameter (empty for an exempt or untyped one)
RequiredOf(p) ==
    IF ReceiverOrVariadic(p) \/ p.ann = Empty THEN {}
    ELSE _required_Validators_For_Annotation(p.ann)

\* the definition node chosen for the callable, 0 when there is none
Located(f, tr) == LocateFrom(tr, f, 1, 0)

\* the actual set of a parameter name: what the collector recorded for it
ActualOf(f, tr, n) == ActualSet(CollectorResult(tr, Located(f, tr)), n)

\* every parameter with a non-empty required set has exactly that set
Covered(f, tr) ==
    \A i \in DOMAIN f.params :
        RequiredOf(f.params[i]) # {} =>
            ActualOf(f, tr, f.params[i].name) = RequiredOf(f.params[i])

Done == outcome # NoOutcome

\* the validators a failure lists as missing, and as unexpected
ReportedMissing(o) == IF o.what = "missing" THEN o.ids ELSE {}

ReportedExtra(o) == IF o.what = "extra" THEN o.ids ELSE {}

\* the variable a validator call validates, by the call-site rule of the
\* specification: the first positional argument or the keyword "target"
Designates(c, n) ==
    /\ c.base = "F2F" /\ StartsWithValidate(c.attr)
    /\ \/ Len(c.args) > 0 /\ c.args[1] = Name(n)
       \/ Keyword("target", Name(n)) \in c.keywords

\* the validated argument of a validator call is no bare variable reference
ValidatesDerived(c) ==
    /\ c.base = "F2F" /\ StartsWithValidate(c.attr)
    /\ \/ Len(c.args) > 0 /\ c.args[1].node # "Name"
       \/ Len(c.args) = 0 /\ \E k \in c.keywords : k.arg = "target" /\ k.value.node # "Name"

\* the validated argument of call c is an expression over variable n
DerivedFrom(c, n) ==
    \/ Len(c.args) > 0 /\ c.args[1].id = n
    \/ Len(c.args) = 0 /\ \E k \in c.keywords : k.arg = "target" /\ k.value.id = n

C2_WrongValidatorReportsBoth ==
    (/\ Done
     /\ Len(func.params) = 1
     /\ func.params[1].ann \in {Plain(c) : c \in Scalars} \cup {Alias("list", <<Plain("int")>>)}
     /\ Len(tree) = 1) =>
        \A w \in Validators :
            tree[1].calls = {Simple(w, func.params[1].name)} =>
                IF {w} = Table(func.params[1].ann) THEN outcome = Returned
                ELSE /\ outcome.exc = "ValueError"
                     /\ w \in ReportedExtra(outcome)
                     /\ Table(func.params[1].ann) \subseteq ReportedMissing(outcome)

(***************************************************************************)
(* C3: a union-typed parameter requires exactly the union of the required  *)
(* sets of its non-null members (int | str: validate_Int and               *)
(* validate_String; int | None: validate_Int; all members null or          *)
(* unsupported: nothing): the function passes exactly when the validators  *)
(* called on the parameter are that set, and lacking one of them it fails  *)
(* listing the lacking ones as missing.                                    *)
(***************************************************************************)
C3_UnionRequiresMembers ==
    (/\ Done
     /\ Len(func.params) = 1
     /\ func.params[1].ann.cls \in UnionForms
     /\ Len(tree) = 1) =>
        LET p == func.params[1]
            req == UNION {Table(p.ann.args[i]) :
                            i \in {k \in DOMAIN p.ann.args : p.ann.args[k] # Plain("NoneType")}}
            act == {c.attr : c \in {d \in tree[1].calls : Designates(d, p.name)}}
        IN  /\ outcome = Returned <=> (req = {} \/ act = req)
            /\ (req \ act) # {} =>
                  outcome = Outcome("ValueError", "missing", func.qualname, p.name, req \ act)
            /\ p.ann.args = <<Plain("int"), Plain("str")>> => req = {"validate_Int", "validate_String"}
            /\ p.ann.args = <<Plain("int"), Plain("NoneType")>> => req = {"validate_Int"}

\* foo(x: int | str) with only validate_Int(x) fails, validate_String missing
C3_Witness ==
    /\ func.params = <<Param("x", Positional, IntOrStr)>>
    /\ Len(tree) = 1
    /\ tree[1].calls = {Simple("validate_Int", "x")}
    /\ outcome = Outcome("ValueError", "missing", "foo", "x", {"validate_String"})

(***************************************************************************)
(* C5: if a parameter other than the receiver and the variadic collectors  *)
(* has no annotation, validate_Function fails with the missing-annotation  *)
(* error (naming the first such parameter), whatever the body holds and    *)
(* whatever else is wrong; unannotated receiver and variadic parameters    *)
(* never bring that error.                                                 *)
(***************************************************************************)
C5_MissingAnnotationAlwaysFails ==
    Done =>
        IF Unannotated(func) # {}
          THEN LET first == CHOOSE i \in Unannotated(func) : \A j \in Unannotated(func) : i <= j
               IN  outcome = Outcome("TypeError", "annotation", func.qualname, func.params[first].name, {})
        ELSE outcome.what # "annotation"

\* foo(x: int, y) whose body calls the wrong validator on x and the right
\* one on y
C5_Witness ==
    /\ func.params = <<Param("x", Positional, Plain("int")), Param("y", Positional, Empty)>>
    /\ Len(tree) = 1
    /\ tree[1].calls = {Simple("validate_String", "x"), Simple("validate_Int", "y")}
    /\ outcome = Outcome("TypeError", "annotation", "foo", "y", {})

(***************************************************************************)
(* C6: a validator call whose validated argument is not a bare variable    *)
(* reference contributes no (parameter, validator) pair to the actual set, *)
(* and a coverable parameter that no call validates by a bare reference    *)
(* fails as missing its validator.                                         *)
(***************************************************************************)
C6_DerivedArgumentRecordsNothing ==
    (Done /\ Unannotated(func) = {} /\ Located(func, tree) # 0) =>
        /\ \A c \in SubtreeCalls(tree, Located(func, tree)) :
              ValidatesDerived(c) => visit_Call(c) = {}
        /\ \A i \in DOMAIN func.params :
              (/\ RequiredOf(func.params[i]) # {}
               /\ \E c \in SubtreeCalls(tree, Located(func, tree)) :
                     ValidatesDerived(c) /\ DerivedFrom(c, func.params[i].name)
               /\ \A c \in SubtreeCalls(tree, Located(func, tree)) : ~Designates(c, func.params[i].name)
               /\ \A j \in 1..(i - 1) :
                     RequiredOf(func.params[j]) # {} =>
                         ActualOf(func, tree, func.params[j].name) = RequiredOf(func.params[j]))
              => /\ outcome.what = "missing"
                 /\ outcome.param = func.params[i].name

(***************************************************************************)
(* C7: the classifier returns exactly the set of the classification table  *)
(* (bool gives validate_Bool, never validate_Int; a list is classified by  *)
(* its element type int, float or str and is a plain list otherwise; any   *)
(* dict, any tuple; nothing for an unsupported type); every coverable type *)
(* gives a non-empty set; and the result is the same with everything below *)
(* the outermost container level removed.                                  *)
(***************************************************************************)
C7_ClassificationTable ==
    needed # Unset =>
        /\ needed = Table(annotation)
        /\ annotation.cls \in Scalars \cup Containers => needed # {}
        /\ needed = _required_Validators_For_Annotation(Outermost(annotation))

\* list[list[int]] is a plain list
C7_Witness ==
    /\ annotation = Alias("list", <<Alias("list", <<Plain("int")>>)>>)
    /\ needed = {"validate_List"}

(***************************************************************************)
(* C10: the locator chooses the function definition of the callable's name *)
(* that starts on the recorded line whenever there is one; otherwise the   *)
(* first definition of that name in the walk; and it fails with the locate *)
(* error exactly when the file holds no function definition of that name.  *)
(***************************************************************************)
C10_LocatorPrefersRecordedLine ==
    target_node # -1 =>
        LET same == {i \in DOMAIN tree :
                        /\ tree[i].type \in {"FunctionDef", "AsyncFunctionDef"}
                        /\ tree[i].name = func.name}
            exact == {i \in same : tree[i].lineno = func.lineno}
        IN  /\ exact # {} => target_node \in exact
            /\ (exact = {} /\ same # {}) =>
                  target_node \in same /\ \A i \in same : target_node <= i
            /\ target_node = 0 <=> same = {}
            /\ outcome.what = "locate" <=> same = {}

\* two definitions named foo: the second one starts on the recorded line
C10_Witness ==
    /\ target_node = 2
    /\ Len(tree) >= 2
    /\ tree[1].name = "foo" /\ tree[1].type = "FunctionDef"
    /\ tree[2].name = "foo" /\ tree[2].lineno = func.lineno

(***************************************************************************)
(* C4: a file whose one callable is a constructor with two annotated       *)
(* coverable parameters, one with exactly its required validator call and  *)
(* the other with none, fails validate_File with an error that names the   *)
(* constructor and the unvalidated parameter, whichever of the two it is.  *)
(***************************************************************************)
C4_ConstructorNamesUnvalidated ==
    \A k \in DOMAIN history :
        LET f == files[history[k].path]
            en == Enumeration(f.members)
        IN  (/\ f.exists /\ f.py
             /\ Len(en) = 1
             /\ en[1].name = "__init__"
             /\ Len(en[1].params) = 3
             /\ RequiredOf(en[1].params[2]) # {}
             /\ RequiredOf(en[1].params[3]) # {}) =>
                LET body == SubtreeCalls(f.tree, Located(en[1], f.tree))
                IN  \A v, u \in {2, 3} :
                        (/\ v # u
                         /\ Cardinality(body) = 1
                         /\ \A c \in body :
                               /\ Designates(c, en[1].params[v].name)
                               /\ {c.attr} = Table(en[1].params[v].ann)
                               /\ ~Designates(c, en[1].params[u].name)) =>
                            /\ history[k].outcome.exc = "ValueError"
                            /\ history[k].outcome.func = en[1].qualname
                            /\ history[k].outcome.param = en[1].params[u].name

(***************************************************************************)
(* C8: validate_Project hands the callables to validate_Function one at a  *)
(* time in enumeration order (functions, then constructors) and stops at   *)
(* the first one that fails: nothing after it is analyzed, and the error   *)
(* of the call is that callable's error; it returns silently only when     *)
(* every callable was analyzed and passed.  (validate_Project is reached   *)
(* for a file that exists, is a .py file and loads.)                       *)
(***************************************************************************)
C8_FailFast ==
    LET Names(en, n) == [i \in 1..n |-> en[i].qualname]
        Fails(f, en) == {i \in DOMAIN en : validate_Function(en[i], f.tree) # Returned}
    IN  /\ pc = "walking" =>
              LET f == files[path]
                  en == Enumeration(f.members)
              IN  /\ cursor = Len(analyzed) + 1
                  /\ analyzed = Names(en, cursor - 1)
                  /\ \A i \in Fails(f, en) : cursor <= i
        /\ \A k \in DOMAIN history :
              LET f == files[history[k].path]
                  en == Enumeration(f.members)
              IN  (f.exists /\ f.py /\ f.load = "ok") =>
                      IF Fails(f, en) = {}
                        THEN /\ history[k].outcome = Returned
                             /\ history[k].analyzed = Names(en, Len(en))
                      ELSE LET first == CHOOSE i \in Fails(f, en) : \A j \in Fails(f, en) : i <= j
                           IN  /\ history[k].outcome = validate_Function(en[first], f.tree)
                               /\ history[k].analyzed = Names(en, first)

\* a file of two failing functions: the call ends at the first one
C8_Witness ==
    /\ Len(history) = 1
    /\ Len(Enumeration(files[history[1].path].members)) = 2
    /\ history[1].analyzed = <<"miss">>
    /\ history[1].outcome = Outcome("ValueError", "missing", "miss", "x", {"validate_Int"})
    /\ validate_Function(Enumeration(files[history[1].path].members)[2], files[history[1].path].tree) # Returned

(***************************************************************************)
(* C9: every validate_File call on the same unchanged file ends the same   *)
(* way (the same return, or the same error naming the same function,       *)
(* parameter and validators), whatever files were analyzed before it.      *)
(***************************************************************************)
C9_SameFileSameVerdict ==
    \A i, j \in DOMAIN history :
        history[i].path = history[j].path => history[i].outcome = history[j].outcome

\* a failing file, then a passing one, then the failing file again
C9_Witness ==
    /\ Len(history) = 3
    /\ history[1].path = history[3].path
    /\ history[2].path # history[1].path
    /\ history[1].outcome.exc = "ValueError" /\ history[1].outcome.what = "missing"
    /\ history[2].outcome = Returned
    /\ Len(history[2].analyzed) = 1

(***************************************************************************)
(* C11: the failure kinds are told apart by the exception class: a load    *)
(* failure and an unsupported input path (a missing path, a file that is   *)
(* no .py file) never end a run with the exception class a coverage defect *)
(* ends a run with, and a missing annotation has a class no other failure  *)
(* has.                                                                    *)
(***************************************************************************)
C11_FailureKindsDistinct ==
    \A j, k \in DOMAIN history :
        LET a == history[j].outcome
            b == history[k].outcome
        IN  /\ (a.what \in {"load", "path", "not .py"} /\ b.what \in {"missing", "extra"})
                   => a.exc # b.exc
            /\ (a.what = "annotation" /\ b.what # "annotation" /\ b # Returned)
                   => a.exc # b.exc

(***************************************************************************)
(* C12: the only arguments of a validator call that designate the          *)
(* validated variable are the first positional argument and the keyword    *)
(* target: whatever is recorded for a parameter comes from a call that     *)
(* designates it so, and a bare variable under any other keyword is not    *)
(* recorded.                                                               *)
(***************************************************************************)
C12_OnlyFirstOrTargetDesignates ==
    (Done /\ Located(func, tree) # 0) =>
        \A i \in DOMAIN func.params :
            ActualOf(func, tree, func.params[i].name) \subseteq
                {c.attr : c \in {d \in SubtreeCalls(tree, Located(func, tree)) :
                                    Designates(d, func.params[i].name)}}

(***************************************************************************)
(* ValidatorCollector (src/flaw2flow/validator_collector.py).  visit(node) *)
(* is ast.NodeVisitor.visit: it calls the method named "visit_" + the      *)
(* node's class name when the visitor has one, generic_visit otherwise;    *)
(* generic_visit visits the children.  Node 0 is the Module.               *)
(***************************************************************************)
\* "visit_" + node.__class__.__name__
MethodName(type) ==
    CASE type = "FunctionDef" -> "visit_FunctionDef"
      [] type = "AsyncFunctionDef" -> "visit_AsyncFunctionDef"
      [] type = "ClassDef" -> "visit_ClassDef"
      [] type = "Module" -> "visit_Module"
      [] type = "Call" -> "visit_Call"

\* the visit methods the class defines (lines 41, 65, 84)
DefinedMethods == {"visit_Function_Def", "visit_Async_Function_Def", "visit_Call"}

\* lines 109-118: the names one validator call is recorded for
param_names(c) ==
    (IF Len(c.args) > 0 /\ c.args[1].node = "Name" THEN {c.args[1].id} ELSE {})
    \cup {kw.value.id : kw \in {k \in c.keywords : k.arg = "target" /\ k.value.node = "Name"}}

\* lines 100-124: ValidatorCollector.visit_Call on collector state st
ValidatorCollector_visit_Call(c, st) ==
    IF ~st.in_target THEN st
    ELSE IF c.base = "F2F" /\ StartsWithValidate(c.attr)
      THEN [st EXCEPT !.result = @ \cup {<<pname, c.attr>> : pname \in param_names(c)}]
    ELSE st

RECURSIVE VisitCalls(_, _)
\* visit on each Call node of a body (the class defines visit_Call)
VisitCalls(cs, st) ==
    IF cs = {} THEN st
    ELSE LET c == CHOOSE x \in cs : TRUE
         IN  VisitCalls(cs \ {c}, ValidatorCollector_visit_Call(c, st))

RECURSIVE visit(_, _, _, _)
RECURSIVE VisitChildren(_, _, _, _, _)
\* generic_visit(node i): the Call nodes of its body, then the definitions
\* directly under it, from index k on
VisitChildren(tr, name, i, k, st) ==
    IF k > Len(tr) THEN st
    ELSE IF tr[k].parent = i
      THEN VisitChildren(tr, name, i, k + 1, visit(tr, name, k, st))
    ELSE VisitChildren(tr, name, i, k + 1, st)

generic_visit(tr, name, i, st) ==
    VisitChildren(tr, name, i, 1, VisitCalls(IF i = 0 THEN {} ELSE tr[i].calls, st))

\* lines 56-63 (and 77-82, the same statements)
visit_Function_Def(tr, name, i, st) ==
    IF tr[i].name = name /\ ~st.in_target
      THEN [generic_visit(tr, name, i, [st EXCEPT !.in_target = TRUE]) EXCEPT !.in_target = FALSE]
    ELSE IF st.in_target THEN generic_visit(tr, name, i, st)
    ELSE st

\* ast.NodeVisitor.visit: dispatch on the method name
visit(tr, name, i, st) ==
    LET method == MethodName(IF i = 0 THEN "Module" ELSE tr[i].type)
    IN  IF method \in DefinedMethods \ {"visit_Call"}
          THEN visit_Function_Def(tr, name, i, st)
        ELSE generic_visit(tr, name, i, st)

(***************************************************************************)
(* The two collectors on one parsed file of up to MaxNodes definitions, in *)
(* ast.walk order (breadth first: a node's parent comes before it, and     *)
(* parents do not decrease along the walk).  The definition at position k  *)
(* starts on line 10k and holds one validator call on x, with the k-th     *)
(* validator, written positionally at odd k and as target=x at even k.     *)
(* The callable is foo, recorded on line 20.                               *)
(***************************************************************************)
ScopeValidators == <<"validate_Int", "validate_String", "validate_Float", "validate_Bool">>

ScopeKinds ==
    {<<"FunctionDef", "foo">>, <<"AsyncFunctionDef", "foo">>,
     <<"FunctionDef", "bar">>, <<"ClassDef", "foo">>}

ScopeCall(k) ==
    IF k % 2 = 1 THEN Simple(ScopeValidators[k], "x")
    ELSE Call("F2F", ScopeValidators[k], <<>>, {Keyword("target", Name("x"))})

ScopeTrees ==
    UNION {{[k \in 1..n |-> Node(kind[k][1], kind[k][2], 10 * k, up[k], {ScopeCall(k)})] :
               kind \in [1..n -> ScopeKinds],
               up \in {u \in [1..n -> 0..(n - 1)] :
                         /\ \A k \in 1..n : u[k] < k
                         /\ \A j, k \in 1..n : j < k => u[j] <= u[k]}} :
           n \in 1..MaxNodes}

CollectInit ==
    /\ func = Function("foo", "foo", 20, <<>>)
    /\ tree \in ScopeTrees
    /\ outcome = NoOutcome /\ target_node = -1
    /\ collected = NoPairs /\ in_target = FALSE /\ result = {} /\ visited = FALSE
    /\ IdleClassifier /\ IdleWalker /\ IdlePackage /\ IdleInt


\* lines 177-350: _collect_F2f_Validations(func, source_path)
CollectValidations ==
    /\ outcome = NoOutcome
    /\ target_node' = LocateFrom(tree, func, 1, 0)
    /\ IF _collect_F2f_Validations(func, tree).raised
         THEN /\ outcome' = Outcome("RuntimeError", "locate", func.name, "", {})
              /\ UNCHANGED collected
       ELSE /\ outcome' = Returned
            /\ collected' = _collect_F2f_Validations(func, tree).result
    /\ UNCHANGED <<func, tree, in_target, result, visited,
                   classifierVars, walkerVars, packageVars, intVars>>

\* ValidatorCollector(func.__name__).visit(tree)
VisitTree ==
    /\ ~visited
    /\ LET st == visit(tree, func.name, 0, [in_target |-> in_target, result |-> result])
       IN  /\ in_target' = st.in_target
           /\ result' = st.result
    /\ visited' = TRUE
    /\ UNCHANGED <<functionVars, collected, classifierVars, walkerVars, packageVars, intVars>>

CollectNext == CollectValidations \/ VisitTree

SpecCollect == CollectInit /\ [][CollectNext]_vars

RECURSIVE Ancestors(_, _)
\* node k and the definitions enclosing it
Ancestors(tr, k) == {k} \cup (IF tr[k].parent = 0 THEN {} ELSE Ancestors(tr, tr[k].parent))

(***************************************************************************)
(* C13: the actual set computed for a callable is exactly the pairs of the *)
(* validator calls inside the located definition node, calls inside        *)
(* definitions nested in it included, and holds no pair of a call in any   *)
(* other definition of the file, even one of the callable's name.          *)
(***************************************************************************)
C13_ActualSetIsLocatedSubtree ==
    (outcome = Returned /\ target_node > 0) =>
        /\ collected =
              UNION {visit_Call(c) :
                        c \in UNION {tree[k].calls :
                                        k \in {j \in DOMAIN tree : target_node \in Ancestors(tree, j)}}}
        /\ \A k \in DOMAIN tree :
              target_node \notin Ancestors(tree, k) =>
                  \A c \in tree[k].calls : visit_Call(c) \cap collected = {}

\* foo on line 20 with a definition nested in it, after another foo on line 10
C13_Witness ==
    /\ outcome = Returned /\ target_node = 2
    /\ Len(tree) = 3
    /\ tree[1].type = "FunctionDef" /\ tree[1].name = "foo"
    /\ tree[3].parent = 2
    /\ collected = {<<"x", "validate_String">>, <<"x", "validate_Float">>}

(***************************************************************************)
(* C14: after ValidatorCollector(name) has visited a tree, result holds    *)
(* validate_Xxx for p for every call F2F.validate_Xxx(p) or                *)
(* F2F.validate_Xxx(target=p) inside a function of that name (definitions  *)
(* nested in it included), nothing from calls outside it, and in_target is *)
(* False again.                                                            *)
(***************************************************************************)
C14_CollectorRecordsTargetFunction ==
    LET InTarget(k) ==
            \E a \in Ancestors(tree, k) :
                tree[a].type \in {"FunctionDef", "AsyncFunctionDef"} /\ tree[a].name = func.name
    IN  visited =>
            /\ in_target = FALSE
            /\ \A k \in DOMAIN tree : \A c \in tree[k].calls :
                  (InTarget(k) /\ Designates(c, "x")) => <<"x", c.attr>> \in result
            /\ \A pair \in result :
                  \E k \in DOMAIN tree : \E c \in tree[k].calls :
                      InTarget(k) /\ Designates(c, pair[1]) /\ c.attr = pair[2]

\* the first parameter, in signature order, among those in S
FirstOf(S) == CHOOSE i \in S : \A j \in S : i <= j

MaxFiles == 3     \* files os.walk lists under a directory

RECURSIVE ProjectFrom(_, _, _)
\* lines 110-120: validate_Function on callable i and the ones after it
ProjectFrom(en, tr, i) ==
    IF i > Len(en) THEN Returned
    ELSE IF validate_Function(en[i], tr) # Returned THEN validate_Function(en[i], tr)
    ELSE ProjectFrom(en, tr, i + 1)

\* lines 101-120, on a loaded module
validate_Project(f) == ProjectFrom(Enumeration(f.members), f.tree, 1)

\* lines 389-397, on the file behind a path
validate_File(f) ==
    IF ~f.exists THEN Outcome("FileNotFoundError", "path", "", "", {})
    ELSE IF ~f.py THEN Outcome("ValueError", "not .py", "", "", {})
    ELSE IF f.load # "ok" THEN Outcome(f.load, "load", "", "", {})
    ELSE validate_Project(f)

Package(k, es) == [kind |-> k, entries |-> es]

\* files a directory holds: passing, failing each way, no .py file, unparsable
PackageFiles ==
    {File(TRUE, TRUE, <<it>>) : it \in {i \in FunctionItems : i.name \in {"ok", "miss", "wrong", "untyped"}}}
    \cup {File(TRUE, FALSE, <<>>), Unloadable("SyntaxError")}

Packages ==
    {Package("dir", es) : es \in SeqsOver(PackageFiles, 0, MaxFiles)}
    \cup {Package("file", <<f>>) : f \in PackageFiles}
    \cup {Package("missing", <<>>)}

PackageInit ==
    /\ package \in Packages
    /\ walked = <<>>
    /\ raised = NoOutcome
    /\ IdleClassifier /\ IdleFunction /\ IdleWalker /\ IdleCollector /\ IdleInt

\* lines 359-364: a path that does not exist, or a single file
PackageEntry ==
    /\ raised = NoOutcome /\ walked = <<>>
    /\ package.kind # "dir"
    /\ IF package.kind = "missing"
         THEN /\ raised' = Outcome("FileNotFoundError", "path", "", "", {})
              /\ UNCHANGED walked
       ELSE /\ raised' = validate_File(package.entries[1])
            /\ walked' = <<"validated">>
    /\ UNCHANGED <<package, classifierVars, functionVars, walkerVars, collectorVars, intVars>>

\* A walk that goes on to the next file after a failure.
PackageStep_KeepGoing ==
    /\ raised = NoOutcome
    /\ package.kind = "dir"
    /\ Len(walked) < Len(package.entries)
    /\ walked' = Append(walked, IF package.entries[Len(walked) + 1].py THEN "validated" ELSE "skipped")
    /\ UNCHANGED <<package, raised, classifierVars, functionVars, walkerVars, collectorVars, intVars>>

\* lines 366-369: one turn of the loops over the walk
PackageStep ==
    /\ raised = NoOutcome
    /\ package.kind = "dir"
    /\ Len(walked) < Len(package.entries)
    /\ LET f == package.entries[Len(walked) + 1]
       IN  IF f.py
             THEN /\ walked' = Append(walked, "validated")
                  /\ raised' = IF validate_File(f) # Returned THEN validate_File(f) ELSE raised
           ELSE /\ walked' = Append(walked, "skipped")
                /\ UNCHANGED raised
    /\ UNCHANGED <<package, classifierVars, functionVars, walkerVars, collectorVars, intVars>>

\* the walk has run out: validate_Package returns None
PackageReturn ==
    /\ raised = NoOutcome
    /\ package.kind = "dir"
    /\ Len(walked) = Len(package.entries)
    /\ raised' = Returned
    /\ UNCHANGED <<package, walked, classifierVars, functionVars, walkerVars, collectorVars, intVars>>

PackageNext == PackageEntry \/ PackageStep \/ PackageReturn

SpecPackage == PackageInit /\ [][PackageNext]_vars

(***************************************************************************)
(* C16: validate_Package on a directory analyzes the .py files of the walk *)
(* one after another and stops at the first whose analysis raises: no file *)
(* after it is analyzed and the error is that file's; files not ending in  *)
(* .py are skipped without error; a single file that is no .py file, given *)
(* directly, is rejected with an error.                                    *)
(***************************************************************************)
C16_PackageStopsAtFirstFailure ==
    LET es == package.entries
        Failing == {i \in DOMAIN es : es[i].py /\ validate_File(es[i]) # Returned}
    IN  /\ package.kind = "dir" =>
              /\ \A i \in DOMAIN walked : walked[i] = (IF es[i].py THEN "validated" ELSE "skipped")
              /\ \A i \in Failing : Len(walked) <= i
              /\ raised = Returned => Failing = {} /\ Len(walked) = Len(es)
              /\ raised \notin {NoOutcome, Returned} =>
                    /\ Len(walked) \in Failing
                    /\ raised = validate_File(es[Len(walked)])
        /\ (package.kind = "file" /\ ~es[1].py /\ raised # NoOutcome) =>
              raised.exc = "ValueError" /\ raised.what = "not .py"

\* a directory of notes.txt, a failing file and another failing file: the
\* call ends with the first failing file's error, the third file untouched
C16_Witness ==
    /\ package.kind = "dir" /\ Len(package.entries) = 3
    /\ ~package.entries[1].py
    /\ walked = <<"skipped", "validated">>
    /\ raised = Outcome("ValueError", "missing", "miss", "x", {"validate_Int"})
    /\ package.entries[3].py /\ validate_File(package.entries[3]) \notin {Returned, raised}

(***************************************************************************)
(* F2F.validate_Int (src/flaw2flow/f2f.py) called with a target and the    *)
(* multiples option, every other option at its default (the checks of      *)
(* lines 111-151 and 161-176 are then skipped).  A value is its Python     *)
(* type and its number; a bool is an int to isinstance.                    *)
(***************************************************************************)
MaxInt == 3         \* integers range over -MaxInt..MaxInt
MaxMultiples == 2   \* elements of the multiples sequence

Value(t, v) == [type |-> t, value |-> v]

\* Python's a % b for b # 0: the remainder has the sign of b
PyMod(a, b) == IF b > 0 THEN a % b ELSE -((-a) % (-b))

RECURSIVE MultiplesFrom(_, _, _)
\* lines 154-158: the loop over multiples; multiple % 0 raises
\* ZeroDivisionError
MultiplesFrom(t, ms, i) ==
    IF i > Len(ms) THEN Returned
    ELSE IF ms[i] = 0 THEN Outcome("ValueError", "Multiple cannot be zero", "", "", {})
    ELSE IF t = 0 THEN Outcome("ZeroDivisionError", "multiple % target", "", "", {})
    ELSE IF PyMod(ms[i], t) # 0 THEN Outcome("ValueError", "Value must be a divisor of", "", "", {})
    ELSE MultiplesFrom(t, ms, i + 1)

\* lines 106-108 and 153-158
validate_Int(t, ms) ==
    IF t.type \notin {"int", "bool"} \/ t.type = "bool"
      THEN Outcome("TypeError", "Expected int", "", "", {})
    ELSE IF ms # <<>> THEN MultiplesFrom(t.value, ms, 1)
    ELSE Returned

Targets ==
    {Value("int", v) : v \in -MaxInt..MaxInt}
    \cup {Value("bool", 0), Value("bool", 1), Value("float", 3), Value("str", 5)}

IntInit ==
    /\ target \in Targets
    /\ multiples \in SeqsOver(-MaxInt..MaxInt, 0, MaxMultiples)
    /\ IdleClassifier /\ IdleFunction /\ IdleWalker /\ IdleCollector /\ IdlePackage

ValidateInt ==
    /\ outcome = NoOutcome
    /\ outcome' = validate_Int(target, multiples)
    /\ UNCHANGED <<func, tree, target_node, intVars, classifierVars, walkerVars,
                   collectorVars, packageVars>>

IntNext == ValidateInt

SpecInt == IntInit /\ [][IntNext]_vars

\* t divides m: m is t times an integer
Divides(t, m) == \E q \in -MaxInt..MaxInt : q * t = m

(***************************************************************************)
(* C17: for an integer target (no bool) and a non-empty sequence of        *)
(* non-zero integers, validate_Int(target, multiples=...) returns None     *)
(* when target divides every element and raises ValueError otherwise; a    *)
(* target that is no integer, or a bool, raises TypeError; no other        *)
(* exception is raised.                                                    *)
(***************************************************************************)
C17_MultiplesDividedByTarget ==
    (/\ outcome # NoOutcome
     /\ multiples # <<>>
     /\ \A i \in DOMAIN multiples : multiples[i] # 0) =>
        /\ outcome.exc \in {"return", "ValueError", "TypeError"}
        /\ IF target.type = "int"
             THEN IF \A i \in DOMAIN multiples : Divides(target.value, multiples[i])
                    THEN outcome = Returned
                  ELSE outcome.exc = "ValueError"
           ELSE outcome.exc = "TypeError"

====
